---- MODULE Spec2Model ----
(***************************************************************************)
(* Lottery pallet calls: buy_ticket (enter) and award_prize (close_round), *)
(* from .snippets/code/basic-substrate/lottery-example-calls.rs.           *)
(*                                                                         *)
(* Storage is the pair Participants (an Option of a BoundedVec of account  *)
(* ids) and Nonce, plus the free balances kept by T::Currency and the      *)
(* event log of the runtime.  Each dispatchable is one action: the body is *)
(* computed step by step as in the source, then the storage layer of       *)
(* #[pallet::call] commits the result on Ok and discards it on Err.        *)
(***************************************************************************)
EXTENDS Integers, Sequences, FiniteSets, TLC

(* ------------------------------ bounds -------------------------------- *)

\* largest free balance an account may hold at genesis
InitBalanceMax == 5

\* number of events after which no further call is issued
MaxEvents == 4

\* width of the Balance type, in bits (scaled down)
BalanceBits == 4

(* ------------------------- program constants --------------------------- *)

\* T::TicketCost::get()
TicketCost == 2

\* bound of the BoundedVec held in Participants
MaxParticipants == 2

\* T::ExistentialDeposit of the Currency: the minimum viable balance
ExistentialDeposit == 1

(* ------------------------------ universe ------------------------------- *)

AccountIds == {"A", "B", "C"}

\* Self::get_pallet_account(): the module-owned escrow account
PalletAccount == "Pallet"

AllAccounts == AccountIds \cup {PalletAccount}

NoAccount == "-"

MaxBalance == 2 ^ BalanceBits - 1

\* the four leading bytes of the seed returned by T::MyRandomness::random:
\* the first byte covers every residue of the participant counts, the others
\* are lowest or highest, so that 0 and u32::MAX are both drawn
Seeds == {<<a, b, c, d>> : a \in {0, 1, 2, 255}, b \in {0, 255},
                          c \in {0, 255}, d \in {0, 255}}

NoSeed == <<0, 0, 0, 0>>

Root == [kind |-> "Root", who |-> NoAccount]

Unsigned == [kind |-> "None", who |-> NoAccount]

Signed(a) == [kind |-> "Signed", who |-> a]

Origins == {Root, Unsigned} \cup {Signed(a) : a \in AccountIds}

(* ------------------------------- state --------------------------------- *)

\* keys_settled: the nonces handed to the randomness source by the calls
\* that committed a settlement, in order
VARIABLES Participants, Nonce, balances, events, call, pre, keys_settled

vars == <<Participants, Nonce, balances, events, call, pre, keys_settled>>

\* Option<T>: None is the empty sequence, Some(v) the one-element sequence
None == <<>>

Some(v) == <<v>>

is_some(o) == Len(o) = 1

unwrap(o) == o[1]

\* the storage a dispatchable reads and writes
storage == [Participants |-> Participants, Nonce |-> Nonce,
            balances |-> balances, events |-> events]

(* ------------------------------ events --------------------------------- *)

TicketBought(who) == [name |-> "TicketBought", who |-> who]

PrizeAwarded(winner) == [name |-> "PrizeAwarded", who |-> winner]

ThereAreNoParticipants == [name |-> "ThereAreNoParticipants", who |-> NoAccount]

\* mutant: the event replaces the log instead of extending it
deposit_event_overwrite(s, e) == [s EXCEPT !.events = <<e>>]

deposit_event(s, e) == [s EXCEPT !.events = Append(@, e)]

(* --------------------------- collaborators ----------------------------- *)

ensure_signed(origin) ==
    IF origin.kind = "Signed"
    THEN [ok |-> TRUE, who |-> origin.who]
    ELSE [ok |-> FALSE, who |-> NoAccount]

\* mutant: any signed account passes for root
ensure_root_signed_too(origin) == origin.kind # "None"

ensure_root(origin) == origin.kind = "Root"

free_balance(s, who) == s.balances[who]

get_participants(s) == s.Participants

\* BoundedVec::contains
contains(v, x) == \E i \in 1..Len(v) : v[i] = x

BoundedVec_new == <<>>

\* mutant: the push ignores the bound
try_push_unbounded(v, x) == [ok |-> TRUE, v |-> Append(v, x)]

\* BoundedVec::try_push: Err when the vector is at its bound
try_push(v, x) ==
    IF Len(v) < MaxParticipants
    THEN [ok |-> TRUE, v |-> Append(v, x)]
    ELSE [ok |-> FALSE, v |-> v]

\* Currency::transfer(source, dest, value, existence_requirement)
transfer(bal, source, dest, value, existence) ==
    IF value = 0 \/ source = dest
    THEN [ok |-> TRUE, err |-> "Ok", balances |-> bal]
    ELSE IF bal[source] < value
    THEN [ok |-> FALSE, err |-> "InsufficientBalance", balances |-> bal]
    ELSE IF bal[dest] + value > MaxBalance
    THEN [ok |-> FALSE, err |-> "Overflow", balances |-> bal]
    ELSE IF bal[dest] + value < ExistentialDeposit
    THEN [ok |-> FALSE, err |-> "ExistentialDeposit", balances |-> bal]
    ELSE IF existence = "KeepAlive" /\ bal[source] - value < ExistentialDeposit
    THEN [ok |-> FALSE, err |-> "KeepAlive", balances |-> bal]
    ELSE LET left == bal[source] - value
             \* an account left below the existential deposit is reaped
             kept == IF left < ExistentialDeposit THEN 0 ELSE left
         IN [ok |-> TRUE, err |-> "Ok",
             balances |-> [bal EXCEPT ![source] = kept, ![dest] = @ + value]]

\* read_and_increment: returns the pre-increment value, persists the next
get_and_increment_nonce(s) ==
    [nonce |-> s.Nonce, st |-> [s EXCEPT !.Nonce = @ + 1]]

\* mutant: the bytes are read most significant first
decode_u32_big_endian(seed) ==
    [lo |-> seed[4] + 256 * seed[3], hi |-> seed[2] + 256 * seed[1]]

\* <u32>::decode: little-endian value of the four leading bytes, kept as
\* two 16-bit halves (the value is hi * 2^16 + lo)
decode_u32(seed) ==
    [lo |-> seed[1] + 256 * seed[2], hi |-> seed[3] + 256 * seed[4]]

\* (x as usize) % n for a u32 held as two halves
rem_usize(x, n) == ((x.hi % n) * 65536 + x.lo) % n

(* ---------------------------- dispatchables ---------------------------- *)

\* outcome of a dispatchable body: its result, the storage it leaves behind
\* and the nonces it handed to the randomness source
Outcome(result, s, keys) == [result |-> result, st |-> s, keys |-> keys]

\* mutant: any non-empty account passes the balance check
has_enough_currency_nonzero(s, buyer) == free_balance(s, buyer) > 0

\* lines 10-13: the buyer can afford the ticket price
has_enough_currency(s, buyer) == free_balance(s, buyer) >= TicketCost

\* mutant: the duplicate check is missing
already_participating_unchecked(s, buyer) == FALSE

\* lines 16-21: the buyer already holds a ticket
already_participating(s, buyer) ==
    /\ is_some(get_participants(s))
    /\ contains(unwrap(get_participants(s)), buyer)

\* mutant: the buyer is put in front of the stored vector
store_participant_front(s, buyer) ==
    LET participants == IF is_some(get_participants(s))
                        THEN unwrap(get_participants(s))
                        ELSE BoundedVec_new
        pushed == try_push(participants, buyer)
    IN  [ok |-> pushed.ok,
         st |-> IF pushed.ok
                THEN [s EXCEPT !.Participants = Some(<<buyer>> \o participants)]
                ELSE s]

\* lines 24-40: push the buyer on the stored vector, or on a new one
store_participant(s, buyer) ==
    LET participants == IF is_some(get_participants(s))
                        THEN unwrap(get_participants(s))
                        ELSE BoundedVec_new
        pushed == try_push(participants, buyer)
    IN  [ok |-> pushed.ok,
         st |-> IF pushed.ok
                THEN [s EXCEPT !.Participants = Some(pushed.v)]
                ELSE s]

\* mutant: the ticket cost is withdrawn from the buyer and credited nowhere
pay_ticket_withdraw(s, buyer) ==
    LET t == transfer(s.balances, buyer, PalletAccount, TicketCost, "KeepAlive")
    IN  IF t.ok
        THEN [t EXCEPT !.balances = [s.balances EXCEPT ![buyer] = @ - TicketCost]]
        ELSE t

\* mutant: the buyer's account may be drained
pay_ticket_allow_death(s, buyer) ==
    transfer(s.balances, buyer, PalletAccount, TicketCost, "AllowDeath")

\* line 43: move the ticket cost to the module's account
pay_ticket(s, buyer) ==
    transfer(s.balances, buyer, PalletAccount, TicketCost, "KeepAlive")

\* mutant: the duplicate check comes before the balance check
buy_ticket_duplicate_first(origin, s) ==
    LET signed == ensure_signed(origin)
        buyer == signed.who
    IN  IF ~signed.ok THEN Outcome("BadOrigin", s, <<>>)
        ELSE IF already_participating(s, buyer)
        THEN Outcome("AccountAlreadyParticipating", s, <<>>)
        ELSE IF ~has_enough_currency(s, buyer)
        THEN Outcome("NotEnoughCurrency", s, <<>>)
        ELSE LET stored == store_participant(s, buyer)
                 s1 == stored.st
                 t == pay_ticket(s1, buyer)
             IN  IF ~stored.ok THEN Outcome("CanNotAddParticipant", s1, <<>>)
                 ELSE IF ~t.ok THEN Outcome(t.err, s1, <<>>)
                 ELSE Outcome("Ok",
                          deposit_event([s1 EXCEPT !.balances = t.balances],
                                        TicketBought(buyer)),
                          <<>>)

buy_ticket(origin, s) ==
    LET signed == ensure_signed(origin)
        buyer == signed.who
    IN  IF ~signed.ok THEN Outcome("BadOrigin", s, <<>>)
        ELSE IF ~has_enough_currency(s, buyer)
        THEN Outcome("NotEnoughCurrency", s, <<>>)
        ELSE IF already_participating(s, buyer)
        THEN Outcome("AccountAlreadyParticipating", s, <<>>)
        ELSE LET stored == store_participant(s, buyer)
                 s1 == stored.st
                 t == pay_ticket(s1, buyer)
             IN  IF ~stored.ok THEN Outcome("CanNotAddParticipant", s1, <<>>)
                 ELSE IF ~t.ok THEN Outcome(t.err, s1, <<>>)
                 ELSE Outcome("Ok",
                          deposit_event([s1 EXCEPT !.balances = t.balances],
                                        TicketBought(buyer)),
                          <<>>)

\* lines 65-66: the participant at random_number % len
select_winner(participants, random_number) ==
    participants[rem_usize(random_number, Len(participants)) + 1]

\* mutant: the prize is one ticket, not the whole balance
pay_prize_one_ticket(s, winner) ==
    transfer(s.balances, PalletAccount, winner, TicketCost, "AllowDeath")

\* mutant: the module's account must stay alive
pay_prize_keep_alive(s, winner) ==
    transfer(s.balances, PalletAccount, winner,
             free_balance(s, PalletAccount), "KeepAlive")

\* lines 69-70: move the whole balance of the module's account to the winner
pay_prize(s, winner) ==
    transfer(s.balances, PalletAccount, winner,
             free_balance(s, PalletAccount), "AllowDeath")

\* mutant: the reset of the round also kills the nonce
reset_round_and_nonce(s) == [s EXCEPT !.Participants = None, !.Nonce = 0]

\* mutant: the reset stores an empty vector instead of killing the value
reset_round_empty(s) == [s EXCEPT !.Participants = Some(BoundedVec_new)]

\* mutant: the registry survives the settlement
reset_round_keep(s) == s

\* line 73: Participants::kill()
reset_round(s) == [s EXCEPT !.Participants = None]

\* mutant: the result of the payout transfer is dropped
award_prize_ignore_transfer(origin, seed, s) ==
    IF ~ensure_root(origin) THEN Outcome("BadOrigin", s, <<>>)
    ELSE IF is_some(get_participants(s))
    THEN LET participants == unwrap(get_participants(s))
             got == get_and_increment_nonce(s)
             s1 == got.st
             keys == <<got.nonce>>
             random_number == decode_u32(seed)
         IN  IF Len(participants) = 0 THEN Outcome("Panic", s1, keys)
             ELSE LET winner == select_winner(participants, random_number)
                      t == pay_prize(s1, winner)
                  IN  Outcome("Ok",
                          deposit_event(
                              reset_round([s1 EXCEPT !.balances = t.balances]),
                              PrizeAwarded(winner)),
                          keys)
    ELSE Outcome("Ok", deposit_event(s, ThereAreNoParticipants), <<>>)

\* mutant: the nonce is read but the incremented value is not kept
award_prize_stale_nonce(origin, seed, s) ==
    IF ~ensure_root(origin) THEN Outcome("BadOrigin", s, <<>>)
    ELSE IF is_some(get_participants(s))
    THEN LET participants == unwrap(get_participants(s))
             got == get_and_increment_nonce(s)
             s1 == s
             keys == <<got.nonce>>
             random_number == decode_u32(seed)
         IN  IF Len(participants) = 0 THEN Outcome("Panic", s1, keys)
             ELSE LET winner == select_winner(participants, random_number)
                      t == pay_prize(s1, winner)
                  IN  IF ~t.ok THEN Outcome(t.err, s1, keys)
                      ELSE Outcome("Ok",
                               deposit_event(
                                   reset_round([s1 EXCEPT !.balances = t.balances]),
                                   PrizeAwarded(winner)),
                               keys)
    ELSE Outcome("Ok", deposit_event(s, ThereAreNoParticipants), <<>>)

\* mutant: the nonce is taken before the registry is looked at
award_prize_nonce_first(origin, seed, s) ==
    IF ~ensure_root(origin) THEN Outcome("BadOrigin", s, <<>>)
    ELSE LET got == get_and_increment_nonce(s)
             s1 == got.st
             keys == <<got.nonce>>
         IN  IF is_some(get_participants(s))
             THEN LET participants == unwrap(get_participants(s))
                      random_number == decode_u32(seed)
                  IN  IF Len(participants) = 0 THEN Outcome("Panic", s1, keys)
                      ELSE LET winner == select_winner(participants, random_number)
                               t == pay_prize(s1, winner)
                           IN  IF ~t.ok THEN Outcome(t.err, s1, keys)
                               ELSE Outcome("Ok",
                                        deposit_event(
                                            reset_round([s1 EXCEPT
                                                !.balances = t.balances]),
                                            PrizeAwarded(winner)),
                                        keys)
             ELSE Outcome("Ok", deposit_event(s1, ThereAreNoParticipants), keys)

award_prize(origin, seed, s) ==
    IF ~ensure_root(origin) THEN Outcome("BadOrigin", s, <<>>)
    ELSE IF is_some(get_participants(s))
    THEN LET participants == unwrap(get_participants(s))
             got == get_and_increment_nonce(s)
             s1 == got.st
             keys == <<got.nonce>>
             random_number == decode_u32(seed)
         IN  \* random_number % 0 panics
             IF Len(participants) = 0 THEN Outcome("Panic", s1, keys)
             ELSE LET winner == select_winner(participants, random_number)
                      t == pay_prize(s1, winner)
                  IN  IF ~t.ok THEN Outcome(t.err, s1, keys)
                      ELSE Outcome("Ok",
                               deposit_event(
                                   reset_round([s1 EXCEPT !.balances = t.balances]),
                                   PrizeAwarded(winner)),
                               keys)
    ELSE Outcome("Ok", deposit_event(s, ThereAreNoParticipants), <<>>)

\* storage layer of a dispatchable: commit on Ok, discard every write on Err
with_storage_layer(s, out) ==
    IF out.result = "Ok" THEN out ELSE [out EXCEPT !.st = s]

(* ------------------------------ actions -------------------------------- *)

Commit(op, origin, seed, out) ==
    /\ Participants' = out.st.Participants
    /\ Nonce' = out.st.Nonce
    /\ balances' = out.st.balances
    /\ events' = out.st.events
    /\ call' = [op |-> op, origin |-> origin, seed |-> seed,
                result |-> out.result, keys |-> out.keys]
    /\ pre' = storage
    /\ keys_settled' = IF out.result = "Ok"
                       THEN keys_settled \o out.keys
                       ELSE keys_settled

\* the seeds the randomness source may answer with; it is asked only by a
\* root call that finds Participants set
SeedsFor(origin) ==
    IF ensure_root(origin) /\ is_some(Participants) THEN Seeds ELSE {NoSeed}

\* an entry is issued only while the settlement of its round still fits
enter ==
    /\ Len(events) + 1 < MaxEvents
    /\ \E origin \in Origins :
         Commit("enter", origin, NoSeed,
                with_storage_layer(storage, buy_ticket(origin, storage)))

close_round ==
    /\ Len(events) < MaxEvents
    /\ \E origin \in Origins :
         \E seed \in SeedsFor(origin) :
            Commit("close_round", origin, seed,
                   with_storage_layer(storage,
                                      award_prize(origin, seed, storage)))

\* the amount the ledger credits in one deposit: it brings an account that
\* holds a little to the top of the Balance range
Deposit == MaxBalance - TicketCost - ExistentialDeposit

\* Currency::deposit_creating: a credit that would overflow is dropped
deposit_creating(bal, who, value) ==
    IF bal[who] + value > MaxBalance \/ bal[who] + value < ExistentialDeposit
    THEN bal
    ELSE [bal EXCEPT ![who] = @ + value]

\* another component of the runtime credits the account of a participant
\* while the round is open
ledger_deposit ==
    /\ Len(events) < MaxEvents
    /\ \E who \in AccountIds :
         /\ is_some(Participants) /\ contains(unwrap(Participants), who)
         /\ deposit_creating(balances, who, Deposit) # balances
         /\ balances' = deposit_creating(balances, who, Deposit)
         /\ call' = [op |-> "deposit", origin |-> Signed(who), seed |-> NoSeed,
                     result |-> "Ok", keys |-> <<>>]
         /\ pre' = storage
         /\ UNCHANGED <<Participants, Nonce, events, keys_settled>>

Init ==
    /\ Participants = None
    /\ Nonce = 0
    /\ balances \in [AllAccounts -> 0..InitBalanceMax]
    /\ balances[PalletAccount] = 0
    /\ events = <<>>
    /\ call = [op |-> "none", origin |-> Unsigned, seed |-> NoSeed,
               result |-> "Ok", keys |-> <<>>]
    /\ pre = storage
    /\ keys_settled = <<>>

Next == enter \/ close_round

\* the module's two calls alone
Spec == Init /\ [][Next]_vars

\* the privileged authority calls close_round
close_round_by_root ==
    /\ Len(events) < MaxEvents
    /\ \E seed \in SeedsFor(Root) :
         Commit("close_round", Root, seed,
                with_storage_layer(storage, award_prize(Root, seed, storage)))

\* genesis balances of the fair runs: an account is empty, holds exactly one
\* ticket cost, or holds the most an account may hold at genesis
FairBalances == {0, TicketCost, InitBalanceMax}

InitFair ==
    /\ Init
    /\ \A a \in AccountIds : balances[a] \in FairBalances

\* the two calls, the privileged authority calling close_round again and
\* again
SpecFair == InitFair /\ [][Next]_vars /\ WF_vars(close_round_by_root)

NextLedger == enter \/ close_round \/ ledger_deposit

\* the module's calls interleaved with credits by the balance ledger
SpecLedger == Init /\ [][NextLedger]_vars

(* ------------------------- vocabulary of claims ------------------------ *)

\* the participants of a storage, the empty sequence when absent
registry(s) == IF is_some(s.Participants) THEN unwrap(s.Participants) ELSE <<>>

registered(s, who) == contains(registry(s), who)

escrow(s) == s.balances[PalletAccount]

caller == call.origin.who

enter_by_account == call.op = "enter" /\ call.origin.kind = "Signed"

close_by_root == call.op = "close_round" /\ call.origin.kind = "Root"

\* the winner the seed of the last call selects among the pre-call registry
drawn == select_winner(registry(pre), decode_u32(call.seed))

\* index of the last PrizeAwarded event, 0 when there is none
last_settlement ==
    LET prizes == {i \in 1..Len(events) : events[i].name = "PrizeAwarded"}
    IN  IF prizes = {} THEN 0 ELSE CHOOSE i \in prizes : \A j \in prizes : j <= i

\* successful entries of the current round
entries_this_round ==
    Cardinality({i \in (last_settlement + 1)..Len(events) :
                    events[i].name = "TicketBought"})

(* --------------------------------- C1 ---------------------------------- *)

\* enter passes the balance, duplicate and capacity checks, and paying the
\* fee would leave the caller below the minimum balance
KeepAliveCase ==
    /\ enter_by_account
    /\ pre.balances[caller] >= TicketCost
    /\ ~registered(pre, caller)
    /\ Len(registry(pre)) < MaxParticipants
    /\ pre.balances[caller] - TicketCost < ExistentialDeposit

\* C1: when enter passes the balance, duplicate and capacity checks but the
\* fee transfer is rejected by the keep-alive rule, the call fails and the
\* storage is the pre-call storage: registry (absent stays absent), all
\* balances, nonce and event log are unchanged.
C1_KeepAliveRollsBack ==
    KeepAliveCase => /\ call.result = "KeepAlive"
                     /\ storage = pre

C1_Witness ==
    /\ KeepAliveCase
    /\ call.result = "KeepAlive"
    /\ pre.Participants = None
    /\ Participants = None

(* --------------------------------- C2 ---------------------------------- *)

\* C2: in every reachable state the balance of the module's account is the
\* ticket cost times the number of participants in the registry, zero when
\* the registry is absent.
C2_EscrowIsFeeTimesParticipants ==
    escrow(storage) = TicketCost * Len(registry(storage))

C2_Witness ==
    /\ close_by_root
    /\ call.result = "Ok"
    /\ escrow(pre) = TicketCost * MaxParticipants
    /\ escrow(storage) = 0
    /\ Participants = None

(* --------------------------------- C3 ---------------------------------- *)

\* C3: in every reachable state no account identifier appears more than
\* once in the registry.
C3_NoDuplicateParticipant ==
    \A i, j \in 1..Len(registry(storage)) :
        registry(storage)[i] = registry(storage)[j] => i = j

C3_Witness ==
    /\ enter_by_account
    /\ call.result = "AccountAlreadyParticipating"
    /\ Len(registry(storage)) = MaxParticipants

(* --------------------------------- C4 ---------------------------------- *)

\* enter by an account that can pay and is not registered, on a full registry
FullCase ==
    /\ enter_by_account
    /\ pre.balances[caller] >= TicketCost
    /\ ~registered(pre, caller)
    /\ Len(registry(pre)) = MaxParticipants

\* C4: the registry size is the number of successful entries of the round,
\* it never exceeds the capacity, and on a full registry an enter by a new
\* account that can pay fails with the capacity error and changes nothing.
C4_SizeCountsEntriesUpToCapacity ==
    /\ Len(registry(storage)) = entries_this_round
    /\ Len(registry(storage)) <= MaxParticipants
    /\ FullCase => /\ call.result = "CanNotAddParticipant"
                   /\ storage = pre

C4_Witness ==
    /\ FullCase
    /\ call.result = "CanNotAddParticipant"
    /\ entries_this_round = MaxParticipants

(* --------------------------------- C5 ---------------------------------- *)

\* C5: close_round by any caller other than root fails with the origin
\* error in every registry state and changes no storage: registry, balances,
\* nonce and event log are the pre-call ones.
C5_NonRootCloseRejected ==
    (call.op = "close_round" /\ call.origin.kind # "Root")
        => /\ call.result = "BadOrigin"
           /\ storage = pre

C5_Witness ==
    /\ call.op = "close_round"
    /\ call.origin.kind = "Signed"
    /\ registered(pre, caller)
    /\ call.result = "BadOrigin"

(* --------------------------------- C6 ---------------------------------- *)

\* C6: after a successful close_round by root on a non-empty registry one
\* participant of the pre-call registry has gained the whole pre-call escrow,
\* the escrow is 0, every other account is unchanged, the registry is absent
\* and exactly one PrizeAwarded event carrying that winner was appended.
C6_WinnerTakesWholeEscrow ==
    (close_by_root /\ call.result = "Ok" /\ Len(registry(pre)) > 0)
        => \E winner \in AccountIds :
              /\ registered(pre, winner)
              /\ balances[winner] = pre.balances[winner] + escrow(pre)
              /\ escrow(storage) = 0
              /\ \A other \in AccountIds \ {winner} :
                    balances[other] = pre.balances[other]
              /\ Participants = None
              /\ events = Append(pre.events, PrizeAwarded(winner))

C6_Witness ==
    /\ close_by_root
    /\ call.result = "Ok"
    /\ Len(registry(pre)) = MaxParticipants
    /\ escrow(pre) > 0
    /\ events[Len(events)].name = "PrizeAwarded"

(* --------------------------------- C7 ---------------------------------- *)

\* close_round by root on a non-empty registry whose payout the ledger rejects
PayoutFailCase ==
    /\ close_by_root
    /\ Len(registry(pre)) > 0
    /\ ~pay_prize(pre, drawn).ok

\* C7: if the payout transfer inside close_round fails, the call fails and
\* the storage is the pre-call storage: the registry is not cleared, no event
\* is appended, no balance has changed and the nonce increment is undone.
C7_PayoutFailureRollsBack ==
    PayoutFailCase => /\ call.result # "Ok"
                      /\ storage = pre

C7_Witness ==
    /\ PayoutFailCase
    /\ call.result = "Overflow"
    /\ call.keys = <<pre.Nonce>>
    /\ Nonce = pre.Nonce
    /\ Participants = pre.Participants

(* --------------------------------- C8 ---------------------------------- *)

\* C8 as stated: every close_round by root increments the nonce by one, also
\* when the registry is absent.
C8_Original ==
    close_by_root => Nonce = pre.Nonce + 1

\* C8 amended: a close_round by root increments the nonce by exactly one
\* when it finds participants and the payout succeeds; when the registry is
\* absent, or the call fails, the nonce is unchanged.
C8_NonceStepsOnlyWhenSettled ==
    close_by_root =>
        Nonce = pre.Nonce
                + (IF Len(registry(pre)) > 0 /\ call.result = "Ok" THEN 1 ELSE 0)

C8_Witness ==
    /\ close_by_root
    /\ call.result = "Ok"
    /\ Len(registry(pre)) > 0
    /\ pre.Nonce = 1
    /\ Nonce = 2

(* --------------------------------- C9 ---------------------------------- *)

\* C9: close_round by root when the registry is absent or empty succeeds as
\* a no-op: exactly one ThereAreNoParticipants event is appended, no
\* randomness is requested, the nonce, the balances and the absent registry
\* are untouched.
C9_NoParticipantsIsNoOp ==
    (close_by_root /\ Len(registry(pre)) = 0)
        => /\ call.result = "Ok"
           /\ events = Append(pre.events, ThereAreNoParticipants)
           /\ call.keys = <<>>
           /\ Nonce = pre.Nonce
           /\ Participants = None
           /\ pre.Participants = None
           /\ balances = pre.balances

C9_Witness ==
    /\ close_by_root
    /\ pre.Participants = None
    /\ pre.Nonce = 1
    /\ events[Len(events)] = ThereAreNoParticipants

(* --------------------------------- C10 --------------------------------- *)

\* enter by an account that is already in the registry
DuplicateCase == enter_by_account /\ registered(pre, caller)

\* C10 as stated: the second enter of an account in one round fails with
\* the duplicate error whatever its balance, registry size and escrow
\* unchanged.
C10_Original ==
    DuplicateCase => /\ call.result = "AccountAlreadyParticipating"
                     /\ Len(registry(storage)) = Len(registry(pre))
                     /\ escrow(storage) = escrow(pre)

\* C10 amended: the second enter of an account in one round fails, with the
\* duplicate error when its balance is still at least the ticket cost and
\* with the insufficient-balance error otherwise; registry size and escrow
\* are unchanged either way.
C10_DuplicateRejected ==
    DuplicateCase
        => /\ call.result = IF pre.balances[caller] >= TicketCost
                            THEN "AccountAlreadyParticipating"
                            ELSE "NotEnoughCurrency"
           /\ Len(registry(storage)) = Len(registry(pre))
           /\ escrow(storage) = escrow(pre)

C10_Witness ==
    /\ DuplicateCase
    /\ pre.balances[caller] >= TicketCost
    /\ call.result = "AccountAlreadyParticipating"
    /\ storage = pre

(* --------------------------------- C11 --------------------------------- *)

\* enter by an account that holds less than the ticket cost
PoorCase == enter_by_account /\ pre.balances[caller] < TicketCost

\* C11: enter by an account whose balance is below the ticket cost fails
\* with the insufficient-balance error in every registry state, and the
\* registry, the escrow and the caller's balance are unchanged.
C11_PoorCallerRejected ==
    PoorCase => /\ call.result = "NotEnoughCurrency"
                /\ Participants = pre.Participants
                /\ escrow(storage) = escrow(pre)
                /\ balances[caller] = pre.balances[caller]

C11_Witness ==
    /\ PoorCase
    /\ pre.balances[caller] > 0
    /\ Len(registry(pre)) = 1
    /\ ~registered(pre, caller)
    /\ call.result = "NotEnoughCurrency"

(* --------------------------------- C12 --------------------------------- *)

\* C12: after a successful enter the registry is the pre-call sequence with
\* the caller appended at the end (the one-element sequence when it was
\* absent), the escrow has grown and the caller's balance has shrunk by
\* exactly the ticket cost, the nonce and all other balances are unchanged,
\* and exactly one TicketBought event carrying the caller was appended.
C12_EntryAppendsAndPays ==
    (enter_by_account /\ call.result = "Ok")
        => /\ Participants = Some(Append(registry(pre), caller))
           /\ escrow(storage) = escrow(pre) + TicketCost
           /\ balances[caller] = pre.balances[caller] - TicketCost
           /\ \A other \in AccountIds \ {caller} :
                 balances[other] = pre.balances[other]
           /\ Nonce = pre.Nonce
           /\ events = Append(pre.events, TicketBought(caller))

C12_Witness ==
    /\ enter_by_account
    /\ call.result = "Ok"
    /\ Len(registry(pre)) = 1
    /\ registry(storage)[2] = caller
    /\ escrow(storage) = 2 * TicketCost

(* --------------------------------- C13 --------------------------------- *)

\* number of rounds settled so far
settled_rounds ==
    Cardinality({i \in 1..Len(events) : events[i].name = "PrizeAwarded"})

\* C13: across enter and close_round calls, successful, no-op or failed, the
\* nonce never decreases and is never reset, also across round boundaries
\* (it stays at least the number of rounds settled); enter never changes it.
C13_NonceNeverDecreases ==
    /\ Nonce >= pre.Nonce
    /\ Nonce >= settled_rounds
    /\ call.op = "enter" => Nonce = pre.Nonce

C13_Witness ==
    /\ enter_by_account
    /\ call.result = "KeepAlive"
    /\ settled_rounds = 1
    /\ pre.Nonce = 1
    /\ Nonce = 1

(* --------------------------------- C14 --------------------------------- *)

\* the last committed outcome before the call was a settlement
JustSettled ==
    /\ Len(pre.events) > 0
    /\ pre.events[Len(pre.events)].name = "PrizeAwarded"

\* C14: a close_round by root right after a successful settlement, with no
\* enter in between, emits ThereAreNoParticipants and pays nothing; and any
\* two PrizeAwarded events of the log have a TicketBought event between them.
C14_OneSettlementPerRound ==
    /\ (close_by_root /\ JustSettled)
          => /\ call.result = "Ok"
             /\ events = Append(pre.events, ThereAreNoParticipants)
             /\ balances = pre.balances
    /\ \A i, j \in 1..Len(events) :
          (i < j /\ events[i].name = "PrizeAwarded"
                 /\ events[j].name = "PrizeAwarded")
             => \E k \in (i + 1)..(j - 1) : events[k].name = "TicketBought"

C14_Witness ==
    /\ close_by_root
    /\ JustSettled
    /\ events[Len(events)] = ThereAreNoParticipants
    /\ Len(events) = 3

(* --------------------------------- C15 --------------------------------- *)

\* the events an operation may end with
outcomes_of(op) ==
    IF op = "enter" THEN {"TicketBought"}
    ELSE IF op = "close_round" THEN {"PrizeAwarded", "ThereAreNoParticipants"}
    ELSE {}

\* C15: the event log is append-only; an enter or close_round that ends Ok
\* appends exactly one event (TicketBought for enter, PrizeAwarded or
\* ThereAreNoParticipants for close_round) and one that fails appends none.
C15_OneEventPerOutcome ==
    /\ Len(events) >= Len(pre.events)
    /\ SubSeq(events, 1, Len(pre.events)) = pre.events
    /\ (call.op \in {"enter", "close_round"} /\ call.result = "Ok")
          => /\ Len(events) = Len(pre.events) + 1
             /\ events[Len(events)].name \in outcomes_of(call.op)
    /\ call.result # "Ok" => events = pre.events

C15_Witness ==
    /\ close_by_root
    /\ call.result = "Overflow"
    /\ Len(pre.events) = 2
    /\ events = pre.events

(* --------------------------------- C16 --------------------------------- *)

\* the little-endian u32 of a seed modulo n, by modular arithmetic on bytes
seed_mod(seed, n) ==
    (seed[1] + (256 % n) * seed[2] + (65536 % n) * seed[3]
             + (16777216 % n) * seed[4]) % n

\* C16: the winner of a close_round on n >= 1 participants is the one at
\* position (random_number mod n) of the insertion order, random_number being
\* the u32 decoded from the seed; for every seed the index lies in [0, n) and
\* every position of the registry is selected by some seed.
C16_WinnerIsSeedModCount ==
    LET n == Len(registry(pre))
        m == Len(registry(storage))
    IN  /\ (close_by_root /\ call.result = "Ok" /\ n >= 1)
              => events[Len(events)]
                    = PrizeAwarded(registry(pre)[seed_mod(call.seed, n) + 1])
        /\ m >= 1 =>
              /\ \A seed \in Seeds :
                    rem_usize(decode_u32(seed), m) \in 0..(m - 1)
              /\ \A k \in 1..m : \E seed \in Seeds :
                    select_winner(registry(storage), decode_u32(seed))
                       = registry(storage)[k]

C16_Witness ==
    /\ close_by_root
    /\ call.result = "Ok"
    /\ Len(registry(pre)) = MaxParticipants
    /\ call.seed = <<255, 255, 255, 255>>
    /\ events[Len(events)] = PrizeAwarded(registry(pre)[2])

(* --------------------------------- C17 --------------------------------- *)

\* C17: in every reachable state the registry is absent or holds at least
\* one participant, never present but empty, and no call has hit the fatal
\* case of the winner selection (modulo by zero, lookup out of bounds).
C17_RegistryAbsentOrNonEmpty ==
    /\ is_some(Participants) => Len(unwrap(Participants)) >= 1
    /\ call.result # "Panic"

C17_Witness ==
    /\ close_by_root
    /\ call.result = "Ok"
    /\ Len(registry(pre)) = 1
    /\ Participants = None
    /\ call.keys # <<>>

(* --------------------------------- C18 --------------------------------- *)

RECURSIVE sum_over(_, _)
\* the sum of the balances of a set of accounts
sum_over(bal, accounts) ==
    IF accounts = {} THEN 0
    ELSE LET a == CHOOSE x \in accounts : TRUE
         IN  bal[a] + sum_over(bal, accounts \ {a})

\* the accounts whose balance the last call may have changed
may_change ==
    IF call.op = "enter" THEN {caller, PalletAccount} \ {NoAccount}
    ELSE IF close_by_root /\ Len(registry(pre)) >= 1 THEN {drawn, PalletAccount}
    ELSE {}

\* C18: funds are conserved: every call leaves the sum of all user balances
\* plus the escrow as it was, and changes no balance but the caller's and the
\* escrow's (enter) or the escrow's and the winner's (close_round).
C18_FundsConserved ==
    /\ sum_over(balances, AllAccounts) = sum_over(pre.balances, AllAccounts)
    /\ \A a \in AllAccounts \ may_change : balances[a] = pre.balances[a]

C18_Witness ==
    /\ close_by_root
    /\ call.result = "Ok"
    /\ escrow(pre) = TicketCost * MaxParticipants
    /\ balances[drawn] = pre.balances[drawn] + escrow(pre)
    /\ sum_over(balances, AllAccounts) = sum_over(pre.balances, AllAccounts)

(* --------------------------------- C19 --------------------------------- *)

\* a close_round by root would succeed now, whatever the seed
settlement_succeeds ==
    \A seed \in Seeds :
        with_storage_layer(storage, award_prize(Root, seed, storage)).result = "Ok"

\* C19: a round never gets stuck: in every state reached by enter and
\* close_round alone with a non-empty registry a close_round by root succeeds
\* (the payout is never rejected), and with root calling close_round again and
\* again every started round settles and the registry becomes absent again.
C19_RoundAlwaysSettles ==
    /\ [](is_some(Participants) => settlement_succeeds)
    /\ (is_some(Participants) ~> Participants = None)

C19_Witness ==
    /\ close_by_root
    /\ call.result = "Ok"
    /\ Len(registry(pre)) = MaxParticipants
    /\ Participants = None
    /\ settled_rounds = 1

(* --------------------------------- C20 --------------------------------- *)

\* C20: the randomness request of a settlement is keyed by the nonce value
\* before the increment, each committed settlement used one key, and the keys
\* of successive committed settlements are strictly increasing, so no two of
\* them share a key.
C20_SettlementKeysIncrease ==
    /\ (close_by_root /\ Len(registry(pre)) >= 1) => call.keys = <<pre.Nonce>>
    /\ Len(keys_settled) = settled_rounds
    /\ \A i, j \in 1..Len(keys_settled) :
          i < j => keys_settled[i] < keys_settled[j]

C20_Witness ==
    /\ close_by_root
    /\ call.result = "Ok"
    /\ call.keys = <<1>>
    /\ keys_settled = <<0, 1>>

====
